---- MODULE Spec2Model ----
(***************************************************************************)
(* A model of GitHubCommitsFetcher (src/src/github_commits_fetcher/        *)
(* fetcher.py): the paginated harvest of process_commits, the worker pool  *)
(* running process_commit, the 403 handling of fetch_commits and           *)
(* fetch_commit_details, the retries of the session's adapter, and the     *)
(* progress file written by save_progress and read by load_progress.       *)
(*                                                                         *)
(* Strings are sequences of tokens: a token is a piece of text without     *)
(* "/" or the separator "/" itself, so that str.split("/") is computed.    *)
(***************************************************************************)
EXTENDS Integers, Sequences, FiniteSets, TLC

\* ------------------------------------------------------------- bounds
\* Largest number of items the listing endpoint serves.
MaxItems == 3
\* The per_page the fetcher is constructed with.
PerPage == 2
\* How many 403 responses the server gives in all when it gives any. A reset time
\* lies at most one unit of time ahead, so the clock never passes Max403.
Max403 == 1
\* How many responses of a status of status_forcelist the server gives in all when
\* it gives any: enough for one request to use up the adapter's retries.
Max503 == 6

\* max_workers of the ThreadPoolExecutor.
MaxWorkers == 5

\* Retry(total=5): the retries the adapter makes of one session.get.
RetryTotal == 5

\* Retry(status_forcelist=[...]): the statuses the adapter retries.
status_forcelist == {429, 500, 502, 503, 504}

VARIABLES
    listing,              \* the repository: the shas the listing endpoint serves, in order
    commit_hash_end,      \* self.commit_hash_end (<<>> is None)
    file,                 \* the progress file on disk
    commits_info,         \* self.commits_info
    processed_commits,    \* self.processed_commits
    pc,                   \* where the control thread is
    page,                 \* process_commits' page
    all_commits_fetched,  \* process_commits' all_commits_fetched
    commits_data,         \* process_commits' commits_data
    request,              \* the control thread's listing request (fetch_commits' locals)
    futures,              \* the page's futures, one per submitted process_commit
    now,                  \* time.time()
    quota403,             \* 403 responses the server has yet to give
    quota503,             \* responses of a retried status the server has yet to give
    gave_up,              \* the shas whose detail request the adapter gave up on
    loaded,               \* how many records load_progress read in this process
    resumed               \* -1 in the first process; in a later one the page the
                          \* process before it was killed at, 0 when it had ended

vars == <<listing, commit_hash_end, file, commits_info, processed_commits,
          pc, page, all_commits_fetched, commits_data, request, futures, now, quota403, quota503, gave_up,
          loaded, resumed>>

\* ------------------------------------------------------------ strings
ShaNames == <<"c1", "c2", "c3", "c4", "c5", "c6">>

Sha(k) == <<ShaNames[k]>>

NoneStr == <<>>

\* commit["html_url"] and commit["url"] as the API serves them.
HtmlUrl(k) == <<"https:", "/", "/", "github.com", "/", "o", "/", "r", "/", "commit", "/">> \o Sha(k)

ApiUrl(k) == <<"https:", "/", "/", "api.github.com", "/", "repos", "/", "o", "/", "r", "/", "commits", "/">> \o Sha(k)

\* s.split("/")[-1]: what follows the last "/" of s (all of s when it has none).
RECURSIVE SplitLast(_)
SplitLast(s) ==
    IF s = <<>> THEN <<>>
    ELSE IF s[Len(s)] = "/" THEN <<>>
    ELSE SplitLast(SubSeq(s, 1, Len(s) - 1)) \o <<s[Len(s)]>>

\* ------------------------------------------------------------- items
\* One Item Summary of the listing endpoint.
Item(k) ==
    [sha |-> Sha(k), url |-> ApiUrl(k), html_url |-> HtmlUrl(k)]

\* The listing endpoint: page p of the repository at per_page items a page.
Min(a, b) == IF a < b THEN a ELSE b

ListingPage(p, per_page) ==
    LET lo == (p - 1) * per_page + 1
        hi == Min(p * per_page, Len(listing))
    IN  [i \in 1..(IF hi >= lo THEN hi - lo + 1 ELSE 0) |-> Item(listing[lo + i - 1])]

\* commit_info as process_commit builds it from the item summary.
CommitInfo(commit) == [CommitURL |-> commit.html_url]

\* ------------------------------------------------------ progress file
AbsentFile == [st |-> "absent", commits_info |-> <<>>, processed_commits |-> {}]

TruncatedFile == [st |-> "partial", commits_info |-> <<>>, processed_commits |-> {}]

\* json.dump of {"commits_info": ..., "processed_commits": list(...)}.
DumpedFile(info, processed) ==
    [st |-> "ok", commits_info |-> info, processed_commits |-> processed]

\* ------------------------------------------------------------ helpers
Range(s) == {s[i] : i \in 1..Len(s)}

\* commits_data: not yet assigned, None, or the page's list of commits.
Unassigned == [kind |-> "unset", data |-> <<>>]

NoData == [kind |-> "none", data |-> <<>>]

Data(d) == [kind |-> "data", data |-> d]

\* session.get raises a RequestException that is no HTTPError (a ConnectionError,
\* or the RetryError of an adapter that has used up its retries).
Raised == [status |-> 0, has_remaining |-> FALSE, remaining |-> 0, reset |-> 0]

\* attempts is the number of responses of a retried status the adapter has had to
\* the session.get under way.
NoRequest == [page |-> 0, per_page |-> 0, rl |-> -1, wake |-> 0, attempts |-> 0]

NoFutures == <<>>

\* A future and its process_commit: "pending" (submitted), "fetching" (the detail
\* request is out), "sleeping" (in handle_rate_limit), "got_data" / "got_none"
\* (fetch_commit_details has returned), "done" (returned, result set), "raised",
\* "yielded" (as_completed has given it to the control thread).
\* url is fetch_commit_details' commit_detail_url; rl is the reset time of the last
\* response handle_rate_limit answered True to, wake the time its sleep ends.
NewFuture == [st |-> "pending", url |-> NoneStr, result |-> <<>>, rl |-> -1, wake |-> 0, attempts |-> 0]

YieldedFuture == [st |-> "yielded", url |-> NoneStr, result |-> <<>>, rl |-> -1, wake |-> 0, attempts |-> 0]

Workers == 1..Len(futures)

Running(w) == futures[w].st \in {"fetching", "sleeping", "got_data", "got_none"}

Finished(w) == futures[w].st \in {"done", "raised", "yielded"}

\* ---------------------------------------------------------------- Init
\* Listings up to renaming of the shas: the k-th new sha is Sha(k).
RECURSIVE MaxOf(_)
MaxOf(s) == IF s = <<>> THEN 0
            ELSE LET m == MaxOf(SubSeq(s, 1, Len(s) - 1))
                 IN  IF s[Len(s)] > m THEN s[Len(s)] ELSE m

Canonical(s) == \A i \in 1..Len(s) : s[i] <= MaxOf(SubSeq(s, 1, i - 1)) + 1

Listings ==
    {s \in UNION {[1..n -> 1..MaxItems] : n \in 0..MaxItems} : Canonical(s)}

\* A checkpoint an earlier run left: some shas of the repository, one record each,
\* in the order of the listing.
RECURSIVE RecordsOf(_, _)
RecordsOf(s, keep) ==
    IF s = <<>> THEN <<>>
    ELSE IF Sha(s[1]) \in keep
         THEN <<CommitInfo(Item(s[1]))>> \o RecordsOf(Tail(s), keep \ {Sha(s[1])})
         ELSE RecordsOf(Tail(s), keep)

\* The process is launched: nothing is loaded yet.
Launched ==
    /\ commits_info = <<>>
    /\ processed_commits = {}
    /\ pc = "start"
    /\ page = 1
    /\ all_commits_fetched = FALSE
    /\ commits_data = Unassigned
    /\ request = NoRequest
    /\ futures = NoFutures
    /\ now = 0
    /\ gave_up = {}
    /\ loaded = 0
    /\ resumed = -1

\* Any repository, stop identifier and earlier checkpoint; no request is ever
\* answered 403.
Init ==
    /\ listing \in Listings
    /\ commit_hash_end \in {NoneStr} \cup {Sha(k) : k \in Range(listing)}
    /\ \E keep \in SUBSET {Sha(k) : k \in Range(listing)} :
          file = IF keep = {} THEN AbsentFile
                 ELSE DumpedFile(RecordsOf(listing, keep), keep)
    /\ quota403 = 0
    /\ quota503 = 0
    /\ Launched

\* A first harvest of any repository, with any stop identifier and up to Max403
\* requests answered 403.
InitRateLimited ==
    /\ listing \in Listings
    /\ commit_hash_end \in {NoneStr} \cup {Sha(k) : k \in Range(listing)}
    /\ file = AbsentFile
    /\ quota403 = Max403
    /\ quota503 = 0
    /\ Launched

\* A first harvest of any repository, with any stop identifier and up to Max503
\* responses of a status the adapter retries.
InitTransient ==
    /\ listing \in Listings
    /\ commit_hash_end \in {NoneStr} \cup {Sha(k) : k \in Range(listing)}
    /\ file = AbsentFile
    /\ quota403 = 0
    /\ quota503 = Max503
    /\ Launched

\* ---------------------------------------------------------- transport
\* What the server answers a request with: a response, or (status 0) no response,
\* session.get raising a RequestException that is no HTTPError (a connection
\* error). A response of a status of status_forcelist goes to the adapter first.
Responses ==
    {[status |-> 200, has_remaining |-> TRUE, remaining |-> 1, reset |-> 0],
     [status |-> 200, has_remaining |-> TRUE, remaining |-> 0, reset |-> now + 1],
     [status |-> 0, has_remaining |-> FALSE, remaining |-> 0, reset |-> 0],
     [status |-> 503, has_remaining |-> FALSE, remaining |-> 0, reset |-> 0],
     [status |-> 429, has_remaining |-> TRUE, remaining |-> 0, reset |-> 0],
     [status |-> 404, has_remaining |-> TRUE, remaining |-> 1, reset |-> 0],
     [status |-> 403, has_remaining |-> FALSE, remaining |-> 0, reset |-> 0],
     [status |-> 403, has_remaining |-> TRUE, remaining |-> 1, reset |-> 0]}
    \cup {[status |-> 403, has_remaining |-> TRUE, remaining |-> 0, reset |-> t] :
            t \in 0..(now + 1)}

\* handle_rate_limit without the test of the status code.
handle_rate_limit_AnyStatus(response, t) ==
    IF response.has_remaining /\ response.remaining = 0
    THEN [retry |-> TRUE,
          sleep |-> IF response.reset - t > 0 THEN response.reset - t ELSE 0]
    ELSE [retry |-> FALSE, sleep |-> 0]

\* handle_rate_limit without its time.sleep.
handle_rate_limit_NoSleep(response, t) ==
    [retry |-> response.status = 403 /\ response.has_remaining /\ response.remaining = 0,
     sleep |-> 0]

\* handle_rate_limit(response) at time t: whether the caller retries, and how long
\* the calling thread sleeps first.
handle_rate_limit(response, t) ==
    IF response.status = 403 /\ response.has_remaining
    THEN IF response.remaining = 0
         THEN [retry |-> TRUE,
               sleep |-> IF response.reset - t > 0 THEN response.reset - t ELSE 0]
         ELSE [retry |-> FALSE, sleep |-> 0]
    ELSE [retry |-> FALSE, sleep |-> 0]

\* The loop without the `continue` of its except branch: a 403 that is no rate limit
\* fails like any other HTTPError.
FetchTurn_ForbiddenFails(response, t) ==
    LET h == handle_rate_limit(response, t)
    IN  IF response.status = 0 THEN "none"
        ELSE IF h.retry THEN (IF h.sleep > 0 THEN "sleep" ELSE "again")
        ELSE IF response.status >= 400 THEN "none"
        ELSE "data"

\* One turn of the while True loop of fetch_commits and fetch_commit_details after
\* session.get: "sleep" (then the request again), "again", "data" or "none".
FetchTurn(response, t) ==
    LET h == handle_rate_limit(response, t)
    IN  IF response.status = 0 THEN "none"
        ELSE IF h.retry THEN (IF h.sleep > 0 THEN "sleep" ELSE "again")
        ELSE IF response.status >= 400
             THEN (IF response.status = 403 THEN "again" ELSE "none")
        ELSE "data"

\* The server gives a response of status 403 while quota403 lasts, and one of a
\* status the adapter retries while quota503 lasts.
Served(response) ==
    /\ response.status = 403 => quota403 > 0
    /\ response.status \in status_forcelist => quota503 > 0

Count403(response) == IF response.status = 403 THEN quota403 - 1 ELSE quota403

Count503(response) ==
    IF response.status \in status_forcelist THEN quota503 - 1 ELSE quota503

\* The adapter gives up after the first response of a retried status.
Adapter_NoRetry(response, attempts) ==
    IF response.status \in status_forcelist THEN "raise" ELSE "pass"

\* The HTTPAdapter with max_retries=Retry(total, status_forcelist), on a response
\* that comes after `attempts` responses of a retried status to this session.get:
\* it sends the request again ("retry"), raises RetryError ("raise") or hands the
\* response to the caller ("pass").
Adapter(response, attempts) ==
    IF response.status \in status_forcelist
    THEN (IF attempts < RetryTotal THEN "retry" ELSE "raise")
    ELSE "pass"

\* ------------------------------------------------------ control thread
\* __init__'s load_progress, then the first lines of process_commits.
load_progress ==
    /\ pc = "start"
    /\ IF file.st = "absent"
       THEN /\ processed_commits' = {}
            /\ commits_info' = <<>>
            /\ pc' = "while"
       ELSE IF file.st = "ok"
       THEN /\ commits_info' = file.commits_info
            /\ processed_commits' = file.processed_commits
            /\ pc' = "while"
       ELSE \* json.load raises on a truncated file
            /\ pc' = "load_error"
            /\ UNCHANGED <<commits_info, processed_commits>>
    /\ loaded' = Len(commits_info')
    /\ page' = 1
    /\ all_commits_fetched' = FALSE
    /\ UNCHANGED <<listing, commit_hash_end, file, commits_data, request,
                   futures, now, quota403, quota503, gave_up, resumed>>

\* while not all_commits_fetched: the loop ends.
LoopExit ==
    /\ pc = "while"
    /\ all_commits_fetched
    /\ pc' = "done"
    /\ UNCHANGED <<listing, commit_hash_end, file, commits_info,
                   processed_commits, page, all_commits_fetched, commits_data, request,
                   futures, now, quota403, quota503, gave_up, loaded, resumed>>

\* fetch_commits(page): params are set and the request goes out.
FetchCommitsSend ==
    /\ pc = "while"
    /\ ~all_commits_fetched
    /\ request' = [page |-> page, per_page |-> PerPage, rl |-> -1, wake |-> 0, attempts |-> 0]
    /\ pc' = "listing"
    /\ UNCHANGED <<listing, commit_hash_end, file, commits_info,
                   processed_commits, page, all_commits_fetched, commits_data, futures,
                   now, quota403, quota503, gave_up, loaded, resumed>>

\* The break taken on an empty page only: None goes on to the pool.
BreakOn_EmptyOnly(result) == result.kind = "data" /\ result.data = <<>>

\* if not commits_data: break
BreakOn(result) == result.kind = "none" \/ result.data = <<>>

\* fetch_commits: a response to the listing request, and what process_commits does
\* with the returned value (break, or submit one process_commit per commit).
FetchCommitsResponse ==
    /\ pc = "listing"
    /\ \E raw \in Responses :
        /\ Served(raw)
        /\ quota403' = Count403(raw)
        /\ quota503' = Count503(raw)
        /\ LET sent == Adapter(raw, request.attempts)
               response == IF sent = "raise" THEN Raised ELSE raw
               tries == IF sent = "raise" THEN request.attempts + 1 ELSE 0
               turn == FetchTurn(response, now)
               data == ListingPage(request.page, request.per_page)
           IN  CASE sent = "retry" ->
                      /\ request' = [request EXCEPT !.attempts = @ + 1]
                      /\ pc' = "listing"
                      /\ UNCHANGED <<commits_data, futures>>
                 [] sent # "retry" /\ turn = "sleep" ->
                      /\ request' = [request EXCEPT !.rl = response.reset,
                                                    !.wake = now + handle_rate_limit(response, now).sleep,
                                                    !.attempts = 0]
                      /\ pc' = "list_sleep"
                      /\ UNCHANGED <<commits_data, futures>>
                 [] sent # "retry" /\ turn = "again" ->
                      /\ request' = [request EXCEPT
                                        !.rl = IF handle_rate_limit(response, now).retry
                                               THEN response.reset ELSE @,
                                        !.attempts = 0]
                      /\ pc' = "listing"
                      /\ UNCHANGED <<commits_data, futures>>
                 [] sent # "retry" /\ turn \in {"none", "data"} ->
                      LET result == IF turn = "none" THEN NoData ELSE Data(data)
                      IN  /\ commits_data' = result
                          /\ IF BreakOn(result)
                             THEN pc' = "done" /\ UNCHANGED futures
                             ELSE /\ pc' = "pool"
                                  /\ futures' = [i \in 1..Len(result.data) |-> NewFuture]
                          /\ request' = [request EXCEPT !.attempts = tries]
    /\ UNCHANGED <<listing, commit_hash_end, file, commits_info,
                   processed_commits, page, all_commits_fetched, now, gave_up, loaded, resumed>>

\* time.sleep(sleep_time) of handle_rate_limit returns in the control thread.
FetchCommitsWake ==
    /\ pc = "list_sleep"
    /\ now >= request.wake
    /\ pc' = "listing"
    /\ UNCHANGED <<listing, commit_hash_end, file, commits_info,
                   processed_commits, page, all_commits_fetched, commits_data, request,
                   futures, now, quota403, quota503, gave_up, loaded, resumed>>

\* -------------------------------------------------------------- workers
\* The commit a future was submitted with.
CommitOf(w) == commits_data.data[w]

\* The skip check left out.
AlreadyProcessed_Never(commit) == FALSE

\* The skip check made on the commit's URL.
AlreadyProcessed_ByUrl(commit) == commit.html_url \in processed_commits

\* process_commit's skip check.
AlreadyProcessed(commit) == commit.sha \in processed_commits

\* A process_commit that marks its commit processed itself.
process_commit_Writes(w) ==
    /\ pc \in {"pool", "pool_raise"}
    /\ futures[w].st = "pending"
    /\ Cardinality({v \in Workers : Running(v)}) < MaxWorkers
    /\ futures' = [futures EXCEPT ![w] =
          IF AlreadyProcessed(CommitOf(w))
          THEN [@ EXCEPT !.st = "done", !.result = <<>>]
          ELSE [@ EXCEPT !.st = "fetching", !.url = CommitOf(w).url]]
    /\ processed_commits' = processed_commits \cup {CommitOf(w).sha}
    /\ UNCHANGED <<listing, commit_hash_end, file, commits_info,
                   pc, page, all_commits_fetched, commits_data,
                   request, now, quota403, quota503, gave_up, loaded, resumed>>

\* process_commit(commit) from its first line to the detail request going out:
\* the skip check, then the fields read from the summary, then fetch_commit_details.
process_commit(w) ==
    /\ pc \in {"pool", "pool_raise"}
    /\ futures[w].st = "pending"
    /\ Cardinality({v \in Workers : Running(v)}) < MaxWorkers
    /\ futures' = [futures EXCEPT ![w] =
          IF AlreadyProcessed(CommitOf(w))
          THEN [@ EXCEPT !.st = "done", !.result = <<>>]
          ELSE [@ EXCEPT !.st = "fetching", !.url = CommitOf(w).url]]
    /\ UNCHANGED <<listing, commit_hash_end, file, commits_info,
                   processed_commits, pc, page, all_commits_fetched, commits_data,
                   request, now, quota403, quota503, gave_up, loaded, resumed>>

\* fetch_commit_details: a response to the detail request.
FetchDetailsResponse(w) ==
    /\ pc \in {"pool", "pool_raise"}
    /\ futures[w].st = "fetching"
    /\ \E raw \in Responses :
        /\ Served(raw)
        /\ quota403' = Count403(raw)
        /\ quota503' = Count503(raw)
        /\ LET sent == Adapter(raw, futures[w].attempts)
               response == IF sent = "raise" THEN Raised ELSE raw
               tries == IF sent = "raise" THEN futures[w].attempts + 1 ELSE 0
               turn == FetchTurn(response, now)
           IN  /\ futures' = [futures EXCEPT ![w] =
                     CASE sent = "retry" -> [@ EXCEPT !.attempts = @ + 1]
                       [] sent # "retry" /\ turn = "sleep" ->
                            [@ EXCEPT !.st = "sleeping", !.rl = response.reset,
                                      !.wake = now + handle_rate_limit(response, now).sleep,
                                      !.attempts = 0]
                       [] sent # "retry" /\ turn = "again" ->
                            [@ EXCEPT !.rl = IF handle_rate_limit(response, now).retry
                                             THEN response.reset ELSE @,
                                      !.attempts = 0]
                       [] sent # "retry" /\ turn = "none" ->
                            [@ EXCEPT !.st = "got_none", !.attempts = tries]
                       [] sent # "retry" /\ turn = "data" ->
                            [@ EXCEPT !.st = "got_data", !.attempts = 0]]
               /\ gave_up' = IF sent = "raise" THEN gave_up \cup {CommitOf(w).sha}
                             ELSE gave_up
    /\ UNCHANGED <<listing, commit_hash_end, file, commits_info,
                   processed_commits, pc, page, all_commits_fetched, commits_data,
                   request, now, loaded, resumed>>

\* process_commit after fetch_commit_details has returned commit_detail_data (data
\* or None): commit_info is built from the summary and returned.
process_commit_return(w) ==
    /\ pc \in {"pool", "pool_raise"}
    /\ futures[w].st \in {"got_data", "got_none"}
    /\ futures' = [futures EXCEPT ![w].st = "done",
                                  ![w].result = <<CommitInfo(CommitOf(w))>>,
                                  ![w].attempts = 0]
    /\ UNCHANGED <<listing, commit_hash_end, file, commits_info,
                   processed_commits, pc, page, all_commits_fetched, commits_data,
                   request, now, quota403, quota503, gave_up, loaded, resumed>>

\* process_commit raises on a summary that lacks a field it reads after the skip
\* check (commit["commit"]["author"] of a summary without one, say).
process_commit_raise(w) ==
    /\ pc \in {"pool", "pool_raise"}
    /\ futures[w].st = "pending"
    /\ Cardinality({v \in Workers : Running(v)}) < MaxWorkers
    /\ ~AlreadyProcessed(CommitOf(w))
    /\ futures' = [futures EXCEPT ![w].st = "raised"]
    /\ UNCHANGED <<listing, commit_hash_end, file, commits_info,
                   processed_commits, pc, page, all_commits_fetched, commits_data,
                   request, now, quota403, quota503, gave_up, loaded, resumed>>

\* time.sleep(sleep_time) of handle_rate_limit returns in a worker.
FetchDetailsWake(w) ==
    /\ pc \in {"pool", "pool_raise"}
    /\ futures[w].st = "sleeping"
    /\ now >= futures[w].wake
    /\ futures' = [futures EXCEPT ![w].st = "fetching"]
    /\ UNCHANGED <<listing, commit_hash_end, file, commits_info,
                   processed_commits, pc, page, all_commits_fetched, commits_data,
                   request, now, quota403, quota503, gave_up, loaded, resumed>>

\* ------------------------------------------------------ result assembly
\* self.commits_info.append(commit_info)
AppendInfo(infos, commit_info) == Append(infos, commit_info)

\* The whole URL added as the identifier.
AddProcessed_WholeUrl(processed, commit_info) == processed \cup {commit_info.CommitURL}

\* commit_hash = commit_info["Commit URL"].split("/")[-1];
\* self.processed_commits.add(commit_hash)
AddProcessed(processed, commit_info) == processed \cup {SplitLast(commit_info.CommitURL)}

\* One turn of `for future in as_completed(futures)`: future.result() of a finished
\* future raises, or gives None or a commit_info that is merged.
AsCompleted(w) ==
    /\ pc = "pool"
    /\ futures[w].st \in {"done", "raised"}
    /\ futures' = [futures EXCEPT ![w] = YieldedFuture]
    /\ IF futures[w].st = "raised"
       THEN /\ pc' = "pool_raise"
            /\ UNCHANGED <<commits_info, processed_commits>>
       ELSE IF futures[w].result # <<>>
       THEN /\ commits_info' = AppendInfo(commits_info, futures[w].result[1])
            /\ processed_commits' = AddProcessed(processed_commits, futures[w].result[1])
            /\ pc' = pc
       ELSE UNCHANGED <<commits_info, processed_commits, pc>>
    /\ UNCHANGED <<listing, commit_hash_end, file, page,
                   all_commits_fetched, commits_data, request, now, quota403, quota503, gave_up, loaded, resumed>>

\* The as_completed loop has yielded every future of the page.
AllCollected == \A w \in Workers : futures[w].st = "yielded"

\* The pool left without waiting: shutdown(wait=False).
PoolShutDown_NoWait == TRUE

\* ThreadPoolExecutor.__exit__: shutdown(wait=True) returns.
PoolShutDown == \A w \in Workers : Finished(w)

\* The stop identifier looked for in the last commit of the page only.
StopFound_LastOnly(data) ==
    /\ commit_hash_end # NoneStr
    /\ data[Len(data)].sha = commit_hash_end

\* any(commit["sha"] == self.commit_hash_end for commit in commits_data), guarded
\* by the truth of self.commit_hash_end.
StopFound(data) ==
    /\ commit_hash_end # NoneStr
    /\ \E i \in 1..Len(data) : data[i].sha = commit_hash_end

\* The with block ends normally; the stop check and page += 1 follow.
PoolExit ==
    /\ pc = "pool"
    /\ AllCollected
    /\ PoolShutDown
    /\ all_commits_fetched' = (all_commits_fetched \/ StopFound(commits_data.data))
    /\ page' = page + 1
    /\ pc' = "save"
    /\ UNCHANGED <<listing, commit_hash_end, file, commits_info,
                   processed_commits, commits_data, request, futures, now, quota403, quota503, gave_up,
                   loaded, resumed>>

\* The exception caught around the pool, and the page checkpointed all the same.
PoolRaise_Saves ==
    /\ pc = "pool_raise"
    /\ PoolShutDown
    /\ page' = page + 1
    /\ pc' = "save"
    /\ UNCHANGED <<listing, commit_hash_end, file, commits_info,
                   processed_commits, all_commits_fetched, commits_data, request,
                   futures, now, quota403, quota503, gave_up, loaded, resumed>>

\* The with block ends by the exception future.result() raised, once the pool has
\* shut down; the exception leaves process_commits.
PoolRaise ==
    /\ pc = "pool_raise"
    /\ PoolShutDown
    /\ pc' = "raised"
    /\ UNCHANGED <<listing, commit_hash_end, file, commits_info,
                   processed_commits, page, all_commits_fetched, commits_data, request,
                   futures, now, quota403, quota503, gave_up, loaded, resumed>>

\* ------------------------------------------------------- save_progress
\* open(self.progress_file, "w"): the file is truncated.
SaveOpen ==
    /\ pc = "save"
    /\ file' = TruncatedFile
    /\ pc' = "save_dump"
    /\ UNCHANGED <<listing, commit_hash_end, commits_info, processed_commits,
                   page, all_commits_fetched, commits_data, request, futures, now, quota403, quota503, gave_up,
                   loaded, resumed>>

\* json.dump and the close of the with block: the file is whole.
SaveDump ==
    /\ pc = "save_dump"
    /\ file' = DumpedFile(commits_info, processed_commits)
    /\ pc' = "cooldown"
    /\ UNCHANGED <<listing, commit_hash_end, commits_info, processed_commits,
                   page, all_commits_fetched, commits_data, request, futures, now, quota403, quota503, gave_up,
                   loaded, resumed>>

\* time.sleep(6) returns and the loop goes round.
Cooldown ==
    /\ pc = "cooldown"
    /\ pc' = "while"
    /\ UNCHANGED <<listing, commit_hash_end, file, commits_info,
                   processed_commits, page, all_commits_fetched, commits_data, request,
                   futures, now, quota403, quota503, gave_up, loaded, resumed>>

\* ------------------------------------------------------- environment
\* Time passes. Only handle_rate_limit reads the clock, and a reset time may lie on
\* either side of it, so the clock is moved only while a thread sleeps.
Tick ==
    /\ \/ pc = "list_sleep" /\ now < request.wake
       \/ \E w \in Workers : futures[w].st = "sleeping" /\ now < futures[w].wake
    /\ now' = now + 1
    /\ UNCHANGED <<listing, commit_hash_end, file, commits_info,
                   processed_commits, pc, page, all_commits_fetched, commits_data,
                   request, futures, quota403, quota503, gave_up, loaded, resumed>>

Stopped == pc \in {"done", "raised", "load_error"}

\* The state of a fresh process: everything but the progress file is lost.
Relaunch ==
    /\ pc' = "start"
    /\ commits_info' = <<>>
    /\ processed_commits' = {}
    /\ page' = 1
    /\ all_commits_fetched' = FALSE
    /\ commits_data' = Unassigned
    /\ request' = NoRequest
    /\ futures' = NoFutures
    /\ loaded' = 0
    /\ gave_up' = {}
    /\ UNCHANGED <<listing, commit_hash_end, file, now, quota403, quota503>>

\* The process is killed while it runs, and started again.
Crash ==
    /\ pc # "start"
    /\ ~Stopped
    /\ resumed' = page
    /\ Relaunch

\* The program is run again after it ended.
Rerun ==
    /\ pc \in {"done", "raised"}
    /\ resumed' = 0
    /\ Relaunch

\* The harvest, killed and run again at any point.
Next ==
    \/ load_progress
    \/ LoopExit
    \/ FetchCommitsSend
    \/ FetchCommitsResponse
    \/ \E w \in Workers : process_commit(w)
    \/ \E w \in Workers : FetchDetailsResponse(w)
    \/ \E w \in Workers : process_commit_return(w)
    \/ \E w \in Workers : process_commit_raise(w)
    \/ \E w \in Workers : AsCompleted(w)
    \/ PoolExit
    \/ PoolRaise
    \/ SaveOpen
    \/ SaveDump
    \/ Cooldown
    \/ Crash
    \/ Rerun

Spec == Init /\ [][Next]_vars

\* One harvest under rate limiting, with the clock.
NextRateLimited ==
    \/ load_progress
    \/ LoopExit
    \/ FetchCommitsSend
    \/ FetchCommitsResponse
    \/ FetchCommitsWake
    \/ \E w \in Workers : process_commit(w)
    \/ \E w \in Workers : FetchDetailsResponse(w)
    \/ \E w \in Workers : FetchDetailsWake(w)
    \/ \E w \in Workers : process_commit_return(w)
    \/ \E w \in Workers : AsCompleted(w)
    \/ PoolExit
    \/ SaveOpen
    \/ SaveDump
    \/ Cooldown
    \/ Tick

SpecRateLimited == InitRateLimited /\ [][NextRateLimited]_vars

\* One harvest with responses of the statuses the adapter retries.
NextTransient ==
    \/ load_progress
    \/ LoopExit
    \/ FetchCommitsSend
    \/ FetchCommitsResponse
    \/ \E w \in Workers : process_commit(w)
    \/ \E w \in Workers : FetchDetailsResponse(w)
    \/ \E w \in Workers : process_commit_return(w)
    \/ \E w \in Workers : AsCompleted(w)
    \/ PoolExit
    \/ SaveOpen
    \/ SaveDump
    \/ Cooldown

SpecTransient == InitTransient /\ [][NextTransient]_vars

\* =============================================================== claims
\* What the claims speak of.

\* The identifier a record is filed under: the last segment of its canonical URL.
IdOf(info) == SplitLast(info.CommitURL)

RecordsFor(infos, id) == {i \in 1..Len(infos) : IdOf(infos[i]) = id}

\* Each identifier of the set has exactly one record and each record's identifier
\* is in the set.
OneToOne(infos, processed) ==
    /\ \A id \in processed : Cardinality(RecordsFor(infos, id)) = 1
    /\ \A i \in 1..Len(infos) : IdOf(infos[i]) \in processed

ListedShas == {Sha(k) : k \in Range(listing)}

\* The repository lists no item twice.
DistinctItems == Cardinality(ListedShas) = Len(listing)

\* process_commits has returned after the listing was walked to its end.
RanToCompletion ==
    /\ pc = "done"
    /\ commits_data.kind = "data"
    /\ (page - 1) * PerPage >= Len(listing)

\* Memory holds nothing the progress file lacks.
Flushed ==
    \/ file = DumpedFile(commits_info, processed_commits)
    \/ file = AbsentFile /\ commits_info = <<>> /\ processed_commits = {}

\* ---------------------------------------------------------------- C1
\* C1: for a repository of N distinct items, a process started after a kill at
\* any point (or after an earlier exit) that walks the listing to its end leaves
\* exactly the N identifiers in the processed set, one record for each, in memory
\* and in the progress file.
C1_ResumeYieldsAll ==
    (DistinctItems /\ RanToCompletion) =>
        /\ processed_commits = ListedShas
        /\ Cardinality(processed_commits) = Len(listing)
        /\ Len(commits_info) = Len(listing)
        /\ OneToOne(commits_info, processed_commits)
        /\ Len(listing) > 0 => file = DumpedFile(commits_info, processed_commits)

\* A process started after a kill on the second page ends with all MaxItems items.
C1_Witness ==
    /\ DistinctItems
    /\ Len(listing) = MaxItems
    /\ resumed >= 2
    /\ loaded = PerPage
    /\ IdOf(commits_info[1]) = Sha(2)
    /\ RanToCompletion
    /\ Cardinality(processed_commits) = MaxItems

\* ---------------------------------------------------------------- C2
\* C2: whenever the process holds a loaded Progress State, and in every whole
\* progress file, the processed set and the record sequence are in one-to-one
\* correspondence.
C2_OneToOne ==
    /\ pc # "start" => OneToOne(commits_info, processed_commits)
    /\ file.st = "ok" => OneToOne(file.commits_info, file.processed_commits)

\* ---------------------------------------------------------------- C3
\* The worker w has run process_commit in this step.
Ran(w) ==
    /\ pc \in {"pool", "pool_raise"}
    /\ pc' \in {"pool", "pool_raise"}
    /\ futures[w].st = "pending"
    /\ futures'[w].st # "pending"

\* as_completed has yielded w in this step.
Yielded(w) ==
    /\ pc = "pool"
    /\ pc' \in {"pool", "pool_raise"}
    /\ futures[w].st # "yielded"
    /\ futures'[w].st = "yielded"

\* C3: a worker that runs while its item's identifier is in the processed set
\* returns None without a detail request and leaves the Progress State as it is;
\* yielding a None result merges nothing; and within a process no step but an
\* append changes the record sequence, an append leaving the records before it.
C3_SkipProcessed ==
    [][/\ \A w \in Workers :
            (Ran(w) /\ CommitOf(w).sha \in processed_commits) =>
                /\ futures'[w].st = "done"
                /\ futures'[w].result = <<>>
                /\ UNCHANGED <<commits_info, processed_commits>>
       /\ \A w \in Workers :
            (Yielded(w) /\ futures[w].result = <<>>) =>
                UNCHANGED <<commits_info, processed_commits>>
       /\ (pc # "start" /\ pc' # "start") =>
            /\ Len(commits_info') >= Len(commits_info)
            /\ SubSeq(commits_info', 1, Len(commits_info)) = commits_info
            /\ processed_commits \subseteq processed_commits'
      ]_vars

\* Three items on two pages, the second one processed before the first process
\* starts: on page 1 its worker has skipped it while the first item was fetched
\* and merged.
C3_Witness ==
    /\ listing = <<1, 2, 3>>
    /\ resumed = -1
    /\ loaded = 1
    /\ pc = "pool"
    /\ page = 1
    /\ futures[2].st = "done"
    /\ futures[2].result = <<>>
    /\ futures[1].st = "yielded"
    /\ commits_info = <<CommitInfo(Item(2)), CommitInfo(Item(1))>>
    /\ processed_commits = {Sha(1), Sha(2)}

\* ---------------------------------------------------------------- C4
\* C4: when fetch_commit_details has given up on an item (commit_detail_data is
\* None), process_commit yields no record for it, so none is appended and its
\* identifier is not added.
C4_FailedDetailDropped ==
    [][\A w \in Workers :
          (/\ pc \in {"pool", "pool_raise"}
           /\ pc' \in {"pool", "pool_raise"}
           /\ futures[w].st = "got_none"
           /\ futures'[w].st = "done") => futures'[w].result = <<>>]_vars

\* ---------------------------------------------------------------- C5
\* C5: a process that starts never finds a truncated progress file: whatever the
\* point at which the process before it was killed, the file is absent or whole.
C5_AtomicSave == pc = "start" => file.st \in {"absent", "ok"}

\* ---------------------------------------------------------------- C6
\* The first page of the listing that holds the stop identifier (0: none does).
StopPage ==
    LET hits == {i \in 1..Len(listing) : Sha(listing[i]) = commit_hash_end}
    IN  IF hits = {} THEN 0
        ELSE ((CHOOSE i \in hits : \A j \in hits : i <= j) + PerPage - 1) \div PerPage

ShasOfPages(p) ==
    {Sha(listing[i]) : i \in {j \in 1..Len(listing) : j <= p * PerPage}}

\* C6: with the stop identifier first listed on page p, no listing request is made
\* for a page after p, and a process_commits that returns by the stop has
\* processed every item of pages 1..p and written the checkpoint of page p.
C6_StopAtPage ==
    StopPage > 0 =>
        /\ request.page <= StopPage
        /\ page <= StopPage + 1
        /\ all_commits_fetched => page = StopPage + 1
        /\ pc = "listing" => request.page = page
        /\ (pc = "done" /\ all_commits_fetched) =>
              /\ ShasOfPages(StopPage) \subseteq processed_commits
              /\ file = DumpedFile(commits_info, processed_commits)

\* The stop identifier is the first item of a first page that is followed by
\* another: the harvest has ended after page 1.
C6_Witness ==
    /\ Len(listing) = MaxItems
    /\ DistinctItems
    /\ commit_hash_end = Sha(listing[1])
    /\ loaded = 0
    /\ pc = "done"
    /\ all_commits_fetched
    /\ page = 2
    /\ Len(commits_info) = PerPage

\* ---------------------------------------------------------------- C7
\* C7: a worker runs only inside the pool of its page; the checkpoint is written,
\* and the next listing request made, only when every worker of the page has
\* finished; and a listing request is made only when memory holds nothing the
\* progress file lacks.
C7_PageBarrier ==
    /\ pc \notin {"pool", "pool_raise"} => \A w \in Workers : Finished(w)
    /\ pc \in {"save", "save_dump", "cooldown", "while", "listing", "list_sleep"} =>
          \A w \in Workers : futures[w].st = "yielded"
    /\ pc \in {"pool", "pool_raise"} =>
          /\ commits_data = Data(ListingPage(page, PerPage))
          /\ Len(futures) = Len(commits_data.data)
    /\ pc \in {"while", "listing", "list_sleep"} => Flushed

\* The listing request of page 2 is out: page 1 had two workers, and its
\* checkpoint holds their two records.
C7_Witness ==
    /\ pc = "listing"
    /\ request.page = 2
    /\ loaded = 0
    /\ Len(futures) = 2
    /\ file.st = "ok"
    /\ Len(file.commits_info) = 2

\* ---------------------------------------------------------------- C8
\* C8: a request that is out again after a 403 with remaining quota 0 and reset
\* time T is out at a time not before T, for the same page and page size (a
\* worker's: for its own commit), and the data a listing request returns is that
\* of the page asked for.
C8_RateLimitRetry ==
    /\ (pc = "listing" /\ request.rl >= 0) => now >= request.rl
    /\ pc \in {"listing", "list_sleep"} =>
          request.page = page /\ request.per_page = PerPage
    /\ pc = "list_sleep" => request.wake = request.rl
    /\ \A w \in Workers :
          /\ (futures[w].st = "fetching" /\ futures[w].rl >= 0) => now >= futures[w].rl
          /\ futures[w].st = "sleeping" => futures[w].wake = futures[w].rl
          /\ futures[w].st \in {"fetching", "sleeping"} => futures[w].url = CommitOf(w).url
          /\ futures[w].st = "done" /\ futures[w].result # <<>> =>
                futures[w].result[1] = CommitInfo(CommitOf(w))
    /\ pc \in {"pool", "pool_raise"} => commits_data = Data(ListingPage(page, PerPage))

\* The listing request of page 1 was answered 403 with reset time 1, the control
\* thread slept until then, and the request made again has returned the page.
C8_Witness ==
    /\ pc = "pool"
    /\ page = 1
    /\ request.rl = 1
    /\ now >= 1
    /\ commits_data = Data(ListingPage(1, PerPage))
    /\ Len(commits_data.data) = PerPage

\* ---------------------------------------------------------------- C9
\* C9: a record is appended only when its identifier is not yet in the processed
\* set: merging a record of a processed identifier changes nothing.
C9_IdempotentMerge ==
    [][\A w \in Workers :
          (/\ Yielded(w)
           /\ futures[w].result # <<>>
           /\ IdOf(futures[w].result[1]) \in processed_commits)
          => UNCHANGED <<commits_info, processed_commits>>]_vars

\* ---------------------------------------------------------------- C10
\* C10: when fetch_commits returns None, process_commits ends at once: the last
\* listing request is the failed one, no worker was started for the page, and the
\* progress file holds all that memory holds (the checkpoint of the page before,
\* or what was loaded).
C10_ListingFailureStops ==
    /\ commits_data.kind = "none" => pc = "done"
    /\ (pc = "done" /\ commits_data.kind = "none") =>
          /\ request.page = page
          /\ \A w \in Workers : futures[w].st = "yielded"
          /\ Flushed
          /\ file.st # "partial"

\* The listing request of page 2 has failed: the file holds the checkpoint of
\* page 1.
C10_Witness ==
    /\ pc = "done"
    /\ commits_data.kind = "none"
    /\ page = 2
    /\ loaded = 0
    /\ file.st = "ok"
    /\ Len(file.commits_info) = PerPage

\* ---------------------------------------------------------------- C11
\* The adapter has given up on the detail request of w in this step.
GaveUp(w) ==
    /\ futures[w].st = "fetching"
    /\ futures'[w] # futures[w]
    /\ CommitOf(w).sha \notin gave_up
    /\ CommitOf(w).sha \in gave_up'

\* C11: the adapter gives up on a detail request exactly at the 6th response of a
\* retried status in a row (5 retries); fetch_commit_details then returns None
\* for that item while the other workers, the page and the Progress State are left
\* as they are, the control thread does not stop, and a harvest that walks the
\* listing to its end has processed every item the adapter did not give up on.
C11_TransientRetry ==
    [][/\ request'.attempts <= RetryTotal + 1
       /\ pc' = "listing" => request'.attempts <= RetryTotal
       /\ \A w \in 1..Len(futures') :
            /\ futures'[w].attempts <= RetryTotal + 1
            /\ futures'[w].st = "fetching" => futures'[w].attempts <= RetryTotal
            /\ futures'[w].attempts = RetryTotal + 1 =>
                  /\ futures'[w].st = "got_none"
                  /\ commits_data'.data[w].sha \in gave_up'
       /\ \A w \in Workers :
            GaveUp(w) =>
                /\ futures[w].attempts = RetryTotal
                /\ futures'[w].attempts = RetryTotal + 1
                /\ futures'[w].st = "got_none"
                /\ \A v \in Workers \ {w} : futures'[v] = futures[v]
                /\ pc' = pc
                /\ UNCHANGED <<commits_info, processed_commits, file, page,
                               all_commits_fetched, commits_data>>
       /\ gave_up' # gave_up => \E w \in Workers : GaveUp(w)
       /\ pc' \notin {"pool_raise", "raised", "load_error"}
       /\ RanToCompletion' => (ListedShas \ gave_up') \subseteq processed_commits'
      ]_vars

\* The detail request of the first item was answered 503 six times in a row; the
\* second item of the page was processed, and the harvest is on page 2, where the
\* third item has been fetched.
C11_Witness ==
    /\ listing = <<1, 2, 3>>
    /\ gave_up = {Sha(1)}
    /\ quota503 = 0
    /\ pc = "pool"
    /\ page = 2
    /\ Sha(2) \in processed_commits
    /\ futures[1].st = "done"
    /\ futures[1].result = <<CommitInfo(Item(3))>>

\* ---------------------------------------------------------------- C12
\* The listing request is answered 403 in this step (only a response of status
\* 403 lowers quota403).
Listing403 == pc = "listing" /\ quota403' < quota403

\* C12: a listing request answered with a status that is not retried (403, a 4xx
\* other than 429) fails at once, fetch_commits returning None, and a listing call
\* that returns None or an empty page ends the loop of process_commits.
C12_ListingErrorEnds ==
    [][/\ Listing403 => (commits_data'.kind = "none" /\ pc' = "done")
       /\ (pc = "listing" /\ commits_data' # commits_data
              /\ (commits_data'.kind = "none" \/ commits_data'.data = <<>>))
            => pc' = "done"
      ]_vars

\* ---------------------------------------------------------------- C13
\* as_completed has yielded a future of the page already.
MergeBegun == \E w \in Workers : futures[w].st = "yielded"

\* C13: within a process a record or identifier is added to the Progress State
\* only when every worker of the page has finished, and no worker makes its skip
\* check once the merge of its page has begun.
C13_AssemblerAfterBarrier ==
    [][/\ (pc = "pool" /\ pc' \in {"pool", "pool_raise"}
            /\ <<commits_info, processed_commits>>' # <<commits_info, processed_commits>>)
          => \A w \in Workers : Finished(w)
       /\ \A w \in Workers : Ran(w) => ~MergeBegun
      ]_vars

\* ---------------------------------------------------------------- C14
\* A thread of the pool has taken a step of the process_commit of w.
WorkerStep(w) ==
    /\ pc \in {"pool", "pool_raise"}
    /\ pc' \in {"pool", "pool_raise"}
    /\ futures[w].st \in {"pending", "fetching", "sleeping", "got_data", "got_none"}
    /\ futures'[w] # futures[w]

\* C14: no step of a process_commit, its fetch_commit_details included, changes
\* the record sequence or the processed set; within a process they change only
\* when the control thread takes a result from as_completed.
C14_WorkersNeverWrite ==
    [][/\ \A w \in Workers :
            WorkerStep(w) => UNCHANGED <<commits_info, processed_commits>>
       /\ (pc # "start" /\ pc' # "start"
            /\ <<commits_info, processed_commits>>' # <<commits_info, processed_commits>>)
          => \E w \in Workers : Yielded(w) /\ futures[w].st = "done"
      ]_vars

\* On the first page of a first run one worker has returned its record and the
\* other has its detail data, and the Progress State is still empty.
C14_Witness ==
    /\ pc = "pool"
    /\ page = 1
    /\ loaded = 0
    /\ Len(futures) = 2
    /\ futures[1].st = "done"
    /\ futures[1].result # <<>>
    /\ futures[2].st = "got_data"
    /\ commits_info = <<>>
    /\ processed_commits = {}

\* ---------------------------------------------------------------- C15
\* The records of the persisted checkpoint: those a process started now would load.
Persisted == IF file.st = "ok" THEN file.commits_info ELSE <<>>

\* The records memory holds and the persisted checkpoint does not.
Unsaved == {i \in 1..Len(commits_info) :
               i > Len(Persisted) \/ Persisted[i] # commits_info[i]}

\* The page being processed: page is already counted up when save_progress runs.
CurrentPage == IF pc \in {"save", "save_dump", "cooldown"} THEN page - 1 ELSE page

ShasOfPage(p) == {ListingPage(p, PerPage)[i].sha : i \in 1..Len(ListingPage(p, PerPage))}

\* C15: at every point of a running harvest the records in memory that the
\* persisted checkpoint lacks are at most per_page and all of the page being
\* processed.
C15_UnsavedWindow ==
    pc \notin {"start", "load_error"} =>
        /\ Cardinality(Unsaved) <= PerPage
        /\ \A i \in Unsaved : IdOf(commits_info[i]) \in ShasOfPage(CurrentPage)

\* ---------------------------------------------------------------- C16
\* C16: for every response the server can give at the present time,
\* handle_rate_limit answers True exactly when the status is 403, the
\* remaining-quota header is there and the quota is 0; it sleeps exactly when it
\* answers True and the reset time lies in the future, and then until the reset
\* time; and a thread is in handle_rate_limit's sleep only after such a response.
C16_RateLimitTrigger ==
    /\ \A response \in Responses :
          LET h == handle_rate_limit(response, now)
          IN  /\ h.retry <=> /\ response.status = 403
                             /\ response.has_remaining
                             /\ response.remaining = 0
              /\ h.sleep > 0 <=> (h.retry /\ response.reset > now)
              /\ h.sleep > 0 => now + h.sleep = response.reset
    /\ pc = "list_sleep" => (request.rl >= 1 /\ request.wake = request.rl)
    /\ \A w \in Workers :
          futures[w].st = "sleeping" =>
              (futures[w].rl >= 1 /\ futures[w].wake = futures[w].rl)

\* A worker sleeps in handle_rate_limit until the reset time 1 of its 403 while
\* the other worker of the page has its detail data.
C16_Witness ==
    /\ pc = "pool"
    /\ now = 0
    /\ Len(futures) = 2
    /\ futures[1].st = "sleeping"
    /\ futures[1].rl = 1
    /\ futures[2].st = "got_data"

\* ---------------------------------------------------------------- C17
\* A response of status 403 is received in this step (no other response lowers
\* quota403).
Got403 == quota403' < quota403

\* C17: the step in which a request is answered 403 returns nothing to the caller:
\* the listing request stays out, or is out again after handle_rate_limit's sleep,
\* for the same page and page size, and a worker's detail request likewise for the
\* same URL; the thread sleeps only when the 403 had remaining quota 0 and a reset
\* time in the future; so fetch_commits and fetch_commit_details return only in a
\* step that receives no 403.
C17_ForbiddenRetried ==
    [][Got403 =>
         /\ pc = "listing" =>
               /\ pc' \in {"listing", "list_sleep"}
               /\ request'.page = request.page
               /\ request'.per_page = request.per_page
               /\ pc' = "list_sleep" =>
                     (request'.rl = request'.wake /\ request'.wake > now)
               /\ futures' = futures
         /\ pc # "listing" =>
               /\ pc' = pc
               /\ request' = request
               /\ \A w \in Workers :
                     futures'[w] # futures[w] =>
                         /\ futures[w].st = "fetching"
                         /\ futures'[w].st \in {"fetching", "sleeping"}
                         /\ futures'[w].url = futures[w].url
                         /\ futures'[w].st = "sleeping" =>
                               (futures'[w].rl = futures'[w].wake /\ futures'[w].wake > now)
         /\ UNCHANGED <<commits_data, commits_info, processed_commits, page,
                        all_commits_fetched, file>>
      ]_vars

\* The listing request of page 1 was answered 403 with no sign of a used-up quota,
\* went out again with no wait and has returned the page.
C17_Witness ==
    /\ pc = "pool"
    /\ page = 1
    /\ now = 0
    /\ quota403 = 0
    /\ request.rl = -1
    /\ Len(futures) = PerPage
    /\ \A w \in Workers : futures[w].st = "pending"

\* ---------------------------------------------------------------- C18
\* future.result() has raised in the as_completed loop of this process.
Aborting == pc \in {"pool_raise", "raised"}

\* C18: when the result of a worker that raised is taken, process_commits leaves
\* the as_completed loop; it ends only once every worker of the page has finished;
\* from then on the process merges nothing, writes nothing to the progress file,
\* does not count the page up and sends no listing request; and the progress file
\* is the whole (or absent) file the page began with, which lacks exactly the
\* records of this page that were merged before the failure.
C18_WorkerErrorAborts ==
    [][/\ \A w \in Workers :
            (Yielded(w) /\ futures[w].st = "raised") =>
                (pc' = "pool_raise" /\ UNCHANGED <<commits_info, processed_commits>>)
       /\ Aborting =>
            /\ file' = file
            /\ pc' \in {"pool_raise", "raised", "start"}
            /\ pc' # "start" =>
                  UNCHANGED <<commits_info, processed_commits, page, request,
                              all_commits_fetched, commits_data>>
       /\ Aborting' =>
            /\ file'.st # "partial"
            /\ request'.page = page'
            /\ commits_data' = Data(ListingPage(page', PerPage))
            /\ \A i \in 1..Len(Persisted') :
                  i <= Len(commits_info') /\ Persisted'[i] = commits_info'[i]
            /\ \A i \in Unsaved' : IdOf(commits_info'[i]) \in ShasOfPage(page)'
            /\ Cardinality(Unsaved') < Len(futures')
       /\ pc' = "raised" => \A w \in 1..Len(futures') : Finished(w)'
      ]_vars

\* A first process that loaded one record has merged the record of one commit of
\* page 1 and has ended by the error of the worker of the other: the progress
\* file still holds the one record.
C18_Witness ==
    /\ pc = "raised"
    /\ resumed = -1
    /\ page = 1
    /\ loaded = 1
    /\ Len(futures) = 2
    /\ Len(commits_info) = 2
    /\ file.st = "ok"
    /\ Len(file.commits_info) = 1

\* ---------------------------------------------------------------- C19
\* The item of w has a record in memory.
Merged(w) == \E i \in 1..Len(commits_info) : commits_info[i] = CommitInfo(CommitOf(w))

\* C19: merging the record of an item adds exactly the item's sha to the processed
\* set; every record in memory is filed under an identifier of the set; and a
\* worker whose item has a record in memory, merged in this process or loaded from
\* the checkpoint of an earlier one, is stopped by the skip check.
C19_MergedIdIsSha ==
    [][/\ \A w \in Workers :
            (Yielded(w) /\ futures[w].result # <<>>) =>
                /\ IdOf(futures[w].result[1]) = CommitOf(w).sha
                /\ processed_commits' = processed_commits \cup {CommitOf(w).sha}
                /\ AlreadyProcessed(CommitOf(w))'
       /\ pc' \notin {"start", "load_error"} =>
            \A i \in 1..Len(commits_info') :
                IdOf(commits_info'[i]) \in processed_commits' \cap ListedShas
       /\ \A w \in Workers :
            (Ran(w) /\ Merged(w)) =>
                (futures'[w].st = "done" /\ futures'[w].result = <<>>)
      ]_vars

\* A process started after a kill on page 2 has loaded the two records the killed
\* one merged on page 1, the second commit's first, and both workers of page 1
\* have been stopped by the skip check.
C19_Witness ==
    /\ listing = <<1, 2, 3>>
    /\ resumed = 2
    /\ loaded = 2
    /\ pc = "pool"
    /\ page = 1
    /\ commits_info = <<CommitInfo(Item(2)), CommitInfo(Item(1))>>
    /\ \A w \in Workers : futures[w].st = "done" /\ futures[w].result = <<>>

====
